---------------------------- MODULE Spec2Model ----------------------------
(***************************************************************************)
(* Model of the multi-tenant BI platform's ETL pipeline (src/main.py):     *)
(* the ETLPipeline object (schema setup, the three transforms, the loader, *)
(* the two dashboard queries, close_connection) and main()'s control flow. *)
(*                                                                         *)
(* Numbers.  A pandas/SQLite float is a record [k, v]:                     *)
(*   k = "fin": the finite value v / Scale (fixed point, four decimals),   *)
(*   k = "inf": plus (v = 1) or minus (v = -1) infinity,                   *)
(*   k = "nan": NaN (v = 0; SQLite stores it as NULL).                     *)
(* Binary rounding error of float64 is abstracted away; the IEEE special   *)
(* values, which decide the division-by-zero behaviour, are kept.          *)
(* tenant_id and date are TEXT in the code and compared bytewise; they are *)
(* numbered here in that order (ISO dates sort chronologically).  The      *)
(* free-text columns carry the constant Text.                              *)
(***************************************************************************)
EXTENDS Integers, Sequences, FiniteSets, TLC

VARIABLES
    pc,              \* control point of main() / of the calling client
    conn,            \* ETLPipeline.conn: "none", "open" or "closed"
    schema,          \* store file: table name -> set of columns ({} = no table)
    tables,          \* store file: table name -> sequence of committed rows
    autoinc,         \* store file: table name -> last AUTOINCREMENT id given
    clock,           \* CURRENT_TIMESTAMP, advanced once per pipeline construction
    campaigns_data,  \* the DataFrame object main() names campaigns_data
    targets_data,    \* the DataFrame object main() names targets_data
    customers_data,  \* the DataFrame object main() names customers_data
    files,           \* the sources: rows of CSV_FILE, EXCEL_FILE and the API
    ret,             \* outcome of the last method call: [op, raised, ...]
    hist             \* history: what the claims compare the present against

vars == <<pc, conn, schema, tables, autoinc, clock,
          campaigns_data, targets_data, customers_data, files, ret, hist>>

store == <<schema, tables, autoinc>>
frames == <<campaigns_data, targets_data, customers_data>>

---------------------------------------------------------------------------
(* Bounds of the model *)

MaxRows == 2        \* rows of an extracted record set
MaxLoads == 2       \* load_to_database calls per table by one client
MaxRuns == 2        \* pipelines constructed on the same store file
NumTenants == 2     \* entries of TENANTS (config.py is not part of src/)
MaxDates == 26      \* distinct campaign dates of one tenant

(* Program constants *)

CtrDigits == 4      \* .round(4)
RatioDigits == 2    \* .round(2)
Limit == 50         \* LIMIT 50

---------------------------------------------------------------------------
(* float64 values *)

RECURSIVE Pow10(_)
Pow10(n) == IF n = 0 THEN 1 ELSE 10 * Pow10(n - 1)

Scale == Pow10(CtrDigits)

Fin(v) == [k |-> "fin", v |-> v]
PosInf == [k |-> "inf", v |-> 1]
NegInf == [k |-> "inf", v |-> -1]
NaN == [k |-> "nan", v |-> 0]
Num(n) == Fin(n * Scale)          \* the number n
Text == "text"
None == "None"
NoFrame == [cols |-> {}, rows |-> <<>>]    \* a name not bound to a DataFrame yet

IsFin(x) == x.k = "fin"

\* a - b (IEEE 754)
FSub(a, b) ==
    CASE a.k = "nan" \/ b.k = "nan" -> NaN
      [] a.k = "fin" /\ b.k = "fin" -> Fin(a.v - b.v)
      [] a.k = "inf" /\ b.k = "fin" -> a
      [] a.k = "fin" /\ b.k = "inf" -> [k |-> "inf", v |-> -b.v]
      [] OTHER -> IF a.v = b.v THEN NaN ELSE a

\* a + b (IEEE 754)
FAdd(a, b) == FSub(a, IF b.k = "fin" THEN Fin(-b.v) ELSE [b EXCEPT !.v = -b.v])

Sign(n) == IF n > 0 THEN 1 ELSE IF n < 0 THEN -1 ELSE 0

\* n / d rounded to the nearest integer, ties to the even one (d > 0)
RoundHalfEven(n, d) ==
    LET q == n \div d
        r == n % d
    IN  IF 2 * r < d THEN q
        ELSE IF 2 * r > d THEN q + 1
        ELSE IF q % 2 = 0 THEN q ELSE q + 1

\* (a / b).round(digits): pandas true division, then numpy's round.
\* x / 0 is +-inf for x # 0 and NaN for x = 0; rounding keeps inf and NaN.
DivRound(a, b, digits) ==
    CASE a.k = "nan" \/ b.k = "nan" -> NaN
      [] a.k = "inf" /\ b.k = "inf" -> NaN
      [] a.k = "inf" -> [k |-> "inf", v |-> a.v * (IF b.v < 0 THEN -1 ELSE 1)]
      [] b.k = "inf" -> Fin(0)
      [] b.v = 0 -> IF a.v = 0 THEN NaN ELSE [k |-> "inf", v |-> Sign(a.v)]
      [] OTHER ->
            LET p == Pow10(digits)
                n == IF b.v < 0 THEN -a.v * p ELSE a.v * p
                d == IF b.v < 0 THEN -b.v ELSE b.v
            IN  Fin(RoundHalfEven(n, d) * (Scale \div p))

\* Series.fillna(0): NaN becomes 0.0, everything else (inf included) stays
FillNa(x) == IF x.k = "nan" THEN Fin(0) ELSE x

---------------------------------------------------------------------------
(* DataFrames: [cols |-> set of column names, rows |-> sequence of rows],  *)
(* each row a function on cols.                                            *)

NRows(df) == Len(df.rows)

\* df[c] = series: assignment in place, adding the column when it is new
SetCol(df, c, series) ==
    [cols |-> df.cols \cup {c},
     rows |-> [i \in 1..NRows(df) |->
                 [x \in df.cols \cup {c} |->
                     IF x = c THEN series[i] ELSE df.rows[i][x]]]]

Col(df, c) == [i \in 1..NRows(df) |-> df.rows[i][c]]

SeriesDivRound(a, b, digits) == [i \in DOMAIN a |-> DivRound(a[i], b[i], digits)]
SeriesSub(a, b) == [i \in DOMAIN a |-> FSub(a[i], b[i])]
SeriesFillNa(a) == [i \in DOMAIN a |-> FillNa(a[i])]

\* A transform_campaigns that writes the net revenue back into the revenue
\* column before dividing: not idempotent, C10 tells it apart
transform_campaigns_net_in_place(df) ==
    IF ~({"clicks", "impressions", "revenue", "spend"} \subseteq df.cols)
    THEN [raised |-> TRUE, df |-> df]
    ELSE
    LET d1 == SetCol(df, "ctr", SeriesFillNa(
                  SeriesDivRound(Col(df, "clicks"), Col(df, "impressions"), CtrDigits)))
        d2 == SetCol(d1, "revenue", SeriesSub(Col(d1, "revenue"), Col(d1, "spend")))
        d3 == SetCol(d2, "roi", SeriesFillNa(
                  SeriesDivRound(Col(d2, "revenue"), Col(d2, "spend"), RatioDigits)))
    IN  [raised |-> FALSE, df |-> d3]

\* Outcome of a transform: raised (KeyError on a missing column, re-raised)
\* and df, the state the DataFrame passed in is left in.  The value returned
\* on success is that same object.
transform_campaigns(df) ==
    IF ~({"clicks", "impressions"} \subseteq df.cols)
    THEN [raised |-> TRUE, df |-> df]
    ELSE
    LET d1 == SetCol(df, "ctr",
                  SeriesDivRound(Col(df, "clicks"), Col(df, "impressions"), CtrDigits))
    IN  IF ~({"revenue", "spend"} \subseteq d1.cols)
        THEN [raised |-> TRUE, df |-> d1]
        ELSE
        LET d2 == SetCol(d1, "roi",
                      SeriesDivRound(SeriesSub(Col(d1, "revenue"), Col(d1, "spend")),
                                     Col(d1, "spend"), RatioDigits))
            d3 == SetCol(d2, "ctr", SeriesFillNa(Col(d2, "ctr")))
            d4 == SetCol(d3, "roi", SeriesFillNa(Col(d3, "roi")))
        IN  [raised |-> FALSE, df |-> d4]

transform_targets(df) ==
    IF ~({"target_revenue", "target_spend"} \subseteq df.cols)
    THEN [raised |-> TRUE, df |-> df]
    ELSE
    LET d1 == SetCol(df, "target_roi",
                  SeriesDivRound(Col(df, "target_revenue"), Col(df, "target_spend"),
                                 RatioDigits))
        d2 == SetCol(d1, "target_roi", SeriesFillNa(Col(d1, "target_roi")))
    IN  [raised |-> FALSE, df |-> d2]

transform_customers(df) ==
    IF ~({"total_spent", "total_orders"} \subseteq df.cols)
    THEN [raised |-> TRUE, df |-> df]
    ELSE
    LET d1 == SetCol(df, "avg_order_value",
                  SeriesDivRound(Col(df, "total_spent"), Col(df, "total_orders"),
                                 RatioDigits))
        d2 == SetCol(d1, "avg_order_value", SeriesFillNa(Col(d1, "avg_order_value")))
    IN  [raised |-> FALSE, df |-> d2]

---------------------------------------------------------------------------
(* Record sets of the three input schemas *)

Tenants == 1..NumTenants
TransformOps == {"transform_campaigns", "transform_targets", "transform_customers"}

CampaignCols == {"tenant_id", "campaign_id", "campaign_name", "date", "impressions",
                 "clicks", "conversions", "spend", "revenue", "region", "product"}
TargetCols == {"tenant_id", "region", "product", "month", "year", "target_revenue",
               "target_conversions", "target_spend"}
CustomerCols == {"tenant_id", "customer_id", "customer_name", "region",
                 "product_preference", "total_spent", "total_orders"}

CampaignRow(t, d, imp, clk, conv, spend, rev) ==
    [tenant_id |-> t, campaign_id |-> Text, campaign_name |-> Text, date |-> d,
     impressions |-> Num(imp), clicks |-> Num(clk), conversions |-> Num(conv),
     spend |-> Num(spend), revenue |-> Num(rev), region |-> Text, product |-> Text]

TargetRow(t, rev, spend) ==
    [tenant_id |-> t, region |-> Text, product |-> Text, month |-> Num(1),
     year |-> Num(2024), target_revenue |-> Num(rev), target_conversions |-> Num(50),
     target_spend |-> Num(spend)]

CustomerRow(t, spent, orders) ==
    [tenant_id |-> t, customer_id |-> Text, customer_name |-> Text, region |-> Text,
     product_preference |-> Text, total_spent |-> Num(spent),
     total_orders |-> Num(orders)]

\* The record set `rows` read without column c (a malformed upstream file)
Frame(cols, rows, missing) ==
    [cols |-> cols \ {missing},
     rows |-> [i \in 1..Len(rows) |-> [x \in cols \ {missing} |-> rows[i][x]]]]

SeqsUpTo(S, n) == UNION {[1..m -> S] : m \in 0..n}

\* <<numerator, denominator>> pairs fed to the transforms: 0/0, x/0, 0/x, a
\* tie at the rounding digit, and a repeating fraction.
CtrCases == {<<0, 0>>, <<3, 0>>, <<0, 5>>, <<1, 32>>, <<1, 3>>}
RatioCases == {<<0, 0>>, <<500, 0>>, <<0, 100>>, <<9, 8>>, <<2, 3>>}

AnyCampaignRows ==
    {CampaignRow(1, 1, c[2], c[1], 1, r[2], r[1]) : c \in CtrCases, r \in RatioCases}
AnyTargetRows == {TargetRow(1, r[1], r[2]) : r \in RatioCases}
AnyCustomerRows == {CustomerRow(1, r[1], r[2]) : r \in RatioCases}

AnyCampaignFrames ==
    {Frame(CampaignCols, rows, m) : rows \in SeqsUpTo(AnyCampaignRows, MaxRows),
                                    m \in {None, "impressions", "spend"}}
AnyTargetFrames ==
    {Frame(TargetCols, rows, m) : rows \in SeqsUpTo(AnyTargetRows, MaxRows),
                                  m \in {None, "target_spend"}}
AnyCustomerFrames ==
    {Frame(CustomerCols, rows, m) : rows \in SeqsUpTo(AnyCustomerRows, MaxRows),
                                    m \in {None, "total_orders"}}

---------------------------------------------------------------------------
(* The store file *)

TableNames == {"fact_campaigns", "dim_sales_targets", "dim_customers"}

NoStore == [t \in TableNames |-> {}]
NoRows == [t \in TableNames |-> <<>>]
NoIds == [t \in TableNames |-> 0]
NoRet == [op |-> None, raised |-> FALSE]
NoFiles == [csv |-> <<>>, xlsx |-> <<>>, api |-> <<>>]
Null == NaN                       \* SQL NULL (pandas writes NaN as NULL)

\* CREATE TABLE column lists
FactCampaignsDDL ==
    {"id", "tenant_id", "campaign_id", "campaign_name", "date", "impressions",
     "clicks", "conversions", "spend", "revenue", "ctr", "roi", "region", "product",
     "created_at"}
DimSalesTargetsDDL ==
    {"id", "tenant_id", "region", "product", "month", "year", "target_revenue",
     "target_conversions", "target_spend", "created_at"}
DimCustomersDDL ==
    {"id", "tenant_id", "customer_id", "customer_name", "region",
     "product_preference", "total_spent", "total_orders", "created_at"}

DDL(t) ==
    CASE t = "fact_campaigns" -> FactCampaignsDDL
      [] t = "dim_sales_targets" -> DimSalesTargetsDDL
      [] t = "dim_customers" -> DimCustomersDDL

\* NOT NULL columns
NotNullCols(t) ==
    CASE t = "fact_campaigns" -> {"tenant_id", "campaign_id"}
      [] t = "dim_sales_targets" -> {"tenant_id"}
      [] t = "dim_customers" -> {"tenant_id", "customer_id"}

\* The order in which setup_database issues its CREATE TABLE statements
CreateOrder == <<"fact_campaigns", "dim_sales_targets", "dim_customers">>

\* The schema after the first k CREATE TABLE IF NOT EXISTS statements: a
\* table that exists is left as it is.
Created(sch, k) ==
    [t \in TableNames |->
        IF sch[t] = {} /\ \E i \in 1..k : CreateOrder[i] = t THEN DDL(t) ELSE sch[t]]

\* setup_database.  fault: "none"; "connect" (sqlite3.connect raises: the
\* store is unreachable); "create" (a CREATE TABLE raises after `done` of
\* them succeeded; DDL is not rolled back).  Rows are never touched.
setup_database(sch, fault, done) ==
    CASE fault = "connect" -> [raised |-> TRUE, conn |-> "none", schema |-> sch]
      [] fault = "create" -> [raised |-> TRUE, conn |-> "open",
                              schema |-> Created(sch, done)]
      [] OTHER -> [raised |-> FALSE, conn |-> "open", schema |-> Created(sch, 3)]

IsNull(x) == x = Null

\* A NOT NULL column that df would leave NULL.  The NOT NULL columns are the
\* keys tenant_id, campaign_id and customer_id, which no source leaves empty
\* in a row, so only a missing column can violate the constraint.
ViolatesNotNull(df, t) == \E c \in NotNullCols(t) : c \notin df.cols

\* The rows INSERTed for df: AUTOINCREMENT ids after `last`, created_at by
\* default, the DataFrame's columns, NULL in every other column.
InsertedRows(df, cols, last, now) ==
    [i \in 1..NRows(df) |->
        [c \in cols |->
            CASE c \in df.cols -> df.rows[i][c]
              [] c = "id" -> last + i
              [] c = "created_at" -> now
              [] OTHER -> Null]]

\* A loader calling to_sql(..., if_exists='replace'): the table is dropped and
\* made anew from the DataFrame; C5 tells it apart
load_to_database_replace(df, t, c, sch, tabs, ids, now, ioerr) ==
    IF c # "open" \/ ioerr
    THEN [raised |-> TRUE, schema |-> sch, tables |-> tabs, autoinc |-> ids]
    ELSE [raised |-> FALSE,
          schema |-> [sch EXCEPT ![t] = df.cols],
          tables |-> [tabs EXCEPT ![t] = df.rows],
          autoinc |-> ids]

\* load_to_database(df, t) on connection state c and store <<sch, tabs, ids>>:
\* DataFrame.to_sql(t, conn, if_exists='append', index=False).  One
\* transaction: it commits every row or, on an error, rolls back and raises.
load_to_database(df, t, c, sch, tabs, ids, now, ioerr) ==
    LET same == [raised |-> TRUE, schema |-> sch, tables |-> tabs, autoinc |-> ids]
    IN  CASE c # "open" \/ ioerr -> same
          [] sch[t] = {} ->            \* no such table: to_sql creates it
                [raised |-> FALSE,
                 schema |-> [sch EXCEPT ![t] = df.cols],
                 tables |-> [tabs EXCEPT ![t] = df.rows],
                 autoinc |-> ids]
          [] NRows(df) = 0 -> [same EXCEPT !.raised = FALSE]   \* nothing to insert
          [] ~(df.cols \subseteq sch[t]) -> same   \* "table t has no column named c"
          [] ViolatesNotNull(df, t) -> same
          [] OTHER ->
                [raised |-> FALSE,
                 schema |-> sch,
                 tables |-> [tabs EXCEPT ![t] =
                                @ \o InsertedRows(df, sch[t], ids[t], now)],
                 autoinc |-> [ids EXCEPT ![t] = @ + NRows(df)]]

---------------------------------------------------------------------------
(* The dashboard queries *)

RECURSIVE SumCol(_, _)
\* SUM(c) over rows: NULLs are skipped; NULL when there is no other value
SumCol(rows, c) ==
    IF rows = <<>> THEN Null
    ELSE LET rest == SumCol(Tail(rows), c)
             x == Head(rows)[c]
         IN  IF IsNull(x) THEN rest
             ELSE IF IsNull(rest) THEN x
             ELSE FAdd(x, rest)

RECURSIVE CountCol(_, _)
CountCol(rows, c) ==
    IF rows = <<>> THEN 0
    ELSE CountCol(Tail(rows), c) + (IF IsNull(Head(rows)[c]) THEN 0 ELSE 1)

\* n / d rounded to the nearest integer, ties away from zero (d > 0)
RoundHalfAway(n, d) ==
    IF n >= 0 THEN (2 * n + d) \div (2 * d) ELSE -((-2 * n + d) \div (2 * d))

\* ROUND(AVG(c), digits)
RoundAvg(rows, c, digits) ==
    LET total == SumCol(rows, c)
        p == Pow10(digits)
    IN  IF ~IsFin(total) THEN total
        ELSE Fin(RoundHalfAway(total.v * p, CountCol(rows, c) * Scale) * (Scale \div p))

\* ORDER BY on a group key <<tenant_id>> or <<tenant_id, date>>
KeyLess(a, b) ==
    \/ a[1] < b[1]
    \/ a[1] = b[1] /\ Len(a) = 2 /\ a[2] < b[2]

\* The keys of K in descending order, ORDER BY ... DESC; C9 tells it apart
RECURSIVE Descending(_)
Descending(K) ==
    IF K = {} THEN <<>>
    ELSE LET m == CHOOSE k \in K : \A o \in K \ {k} : KeyLess(o, k)
         IN  <<m>> \o Descending(K \ {m})

\* The keys of the set K as a sequence in ascending order: ORDER BY
RECURSIVE Ascending(_)
Ascending(K) ==
    IF K = {} THEN <<>>
    ELSE LET m == CHOOSE k \in K : \A o \in K \ {k} : KeyLess(k, o)
         IN  <<m>> \o Ascending(K \ {m})

TenantKey(r) == <<r.tenant_id>>
DailyKey(r) == <<r.tenant_id, r.date>>

Min(a, b) == IF a < b THEN a ELSE b

\* SELECT ... FROM fact_campaigns GROUP BY tenant_id ORDER BY tenant_id
campaign_summary(rows) ==
    LET keys == Ascending({TenantKey(rows[i]) : i \in 1..Len(rows)})
        Group(k) == SelectSeq(rows, LAMBDA r : TenantKey(r) = k)
    IN  [j \in 1..Len(keys) |->
            LET g == Group(keys[j])
            IN  [tenant_id |-> keys[j][1],
                 total_campaigns |-> Len(g),
                 total_impressions |-> SumCol(g, "impressions"),
                 total_clicks |-> SumCol(g, "clicks"),
                 total_conversions |-> SumCol(g, "conversions"),
                 total_spend |-> SumCol(g, "spend"),
                 total_revenue |-> SumCol(g, "revenue"),
                 avg_ctr |-> RoundAvg(g, "ctr", CtrDigits),
                 avg_roi |-> RoundAvg(g, "roi", RatioDigits)]]

\* A daily_performance whose LIMIT cuts the rows before they are grouped; C8
\* tells it apart
daily_performance_limit_first(rows) ==
    LET cut == SubSeq(rows, 1, Min(Limit, Len(rows)))
        keys == Ascending({DailyKey(cut[i]) : i \in 1..Len(cut)})
        Group(k) == SelectSeq(cut, LAMBDA r : DailyKey(r) = k)
    IN  [j \in 1..Len(keys) |->
            LET g == Group(keys[j])
            IN  [tenant_id |-> keys[j][1],
                 date |-> keys[j][2],
                 daily_conversions |-> SumCol(g, "conversions"),
                 daily_revenue |-> SumCol(g, "revenue"),
                 daily_spend |-> SumCol(g, "spend")]]

\* SELECT ... FROM fact_campaigns GROUP BY tenant_id, date
\* ORDER BY tenant_id, date LIMIT 50
daily_performance(rows) ==
    LET keys == Ascending({DailyKey(rows[i]) : i \in 1..Len(rows)})
        Group(k) == SelectSeq(rows, LAMBDA r : DailyKey(r) = k)
    IN  [j \in 1..Min(Limit, Len(keys)) |->
            LET g == Group(keys[j])
            IN  [tenant_id |-> keys[j][1],
                 date |-> keys[j][2],
                 daily_conversions |-> SumCol(g, "conversions"),
                 daily_revenue |-> SumCol(g, "revenue"),
                 daily_spend |-> SumCol(g, "spend")]]

QueryTypes == {"campaign_summary", "daily_performance"}

\* An execute_dashboard_query whose last branch is the default: a query type
\* that is not campaign_summary runs daily_performance; C7 tells it apart
execute_dashboard_query_default(query_type, c, sch, tabs) ==
    IF c # "open" \/ sch["fact_campaigns"] = {}
    THEN [raised |-> TRUE, value |-> <<>>]
    ELSE [raised |-> FALSE,
          value |-> IF query_type = "campaign_summary"
                    THEN campaign_summary(tabs["fact_campaigns"])
                    ELSE daily_performance(tabs["fact_campaigns"])]

\* execute_dashboard_query(query_type) on connection state c: an unknown
\* query type raises ValueError before the store is read; a query on a closed
\* connection or a missing table raises too.  Nothing is written.
execute_dashboard_query(query_type, c, sch, tabs) ==
    IF query_type \notin QueryTypes \/ c # "open" \/ sch["fact_campaigns"] = {}
    THEN [raised |-> TRUE, value |-> <<>>]
    ELSE [raised |-> FALSE,
          value |-> IF query_type = "campaign_summary"
                    THEN campaign_summary(tabs["fact_campaigns"])
                    ELSE daily_performance(tabs["fact_campaigns"])]

\* close_connection: `if self.conn: self.conn.close()`
close_connection(c) == IF c = "none" THEN "none" ELSE "closed"

---------------------------------------------------------------------------
(* SpecT: the transforms applied, up to twice, to any extracted record set *)

InitT ==
    /\ pc = "extracted"
    /\ conn = "none"
    /\ schema = NoStore /\ tables = NoRows /\ autoinc = NoIds /\ clock = 0
    /\ \/ campaigns_data \in AnyCampaignFrames
          /\ targets_data = NoFrame /\ customers_data = NoFrame
       \/ targets_data \in AnyTargetFrames
          /\ campaigns_data = NoFrame /\ customers_data = NoFrame
       \/ customers_data \in AnyCustomerFrames
          /\ campaigns_data = NoFrame /\ targets_data = NoFrame
    /\ files = NoFiles
    /\ ret = NoRet
    /\ hist = [before |-> NoFrame, first |-> NoFrame, applied |-> 0]

\* hist after a transform call on df with outcome r
Applied(df, r) ==
    [before |-> df,
     first |-> IF hist.applied = 0 THEN r.df ELSE hist.first,
     applied |-> hist.applied + 1]

TransformCampaigns ==
    /\ campaigns_data # NoFrame /\ hist.applied < 2 /\ ~ret.raised
    /\ LET r == transform_campaigns(campaigns_data)
       IN  /\ campaigns_data' = r.df
           /\ ret' = [op |-> "transform_campaigns", raised |-> r.raised]
           /\ hist' = Applied(campaigns_data, r)
    /\ pc' = "transformed"
    /\ UNCHANGED <<conn, store, clock, targets_data, customers_data, files>>

TransformTargets ==
    /\ targets_data # NoFrame /\ hist.applied < 2 /\ ~ret.raised
    /\ LET r == transform_targets(targets_data)
       IN  /\ targets_data' = r.df
           /\ ret' = [op |-> "transform_targets", raised |-> r.raised]
           /\ hist' = Applied(targets_data, r)
    /\ pc' = "transformed"
    /\ UNCHANGED <<conn, store, clock, campaigns_data, customers_data, files>>

TransformCustomers ==
    /\ customers_data # NoFrame /\ hist.applied < 2 /\ ~ret.raised
    /\ LET r == transform_customers(customers_data)
       IN  /\ customers_data' = r.df
           /\ ret' = [op |-> "transform_customers", raised |-> r.raised]
           /\ hist' = Applied(customers_data, r)
    /\ pc' = "transformed"
    /\ UNCHANGED <<conn, store, clock, campaigns_data, targets_data, files>>

NextT == TransformCampaigns \/ TransformTargets \/ TransformCustomers

SpecT == InitT /\ [][NextT]_vars

\* The DataFrame object the last transform call was given
Transformed ==
    CASE ret.op = "transform_campaigns" -> campaigns_data
      [] ret.op = "transform_targets" -> targets_data
      [] ret.op = "transform_customers" -> customers_data

---------------------------------------------------------------------------
(* Claims about the transforms *)

Abs(n) == IF n < 0 THEN -n ELSE n

\* m is num/den rounded to `digits` decimals (either way at a tie)
IsRounded(m, num, den, digits) ==
    LET p == Pow10(digits)
        u == Scale \div p
    IN  /\ IsFin(m) /\ m.v % u = 0
        /\ 2 * Abs((m.v \div u) * den.v - num.v * p) <= den.v

MetricOK(m, num, den, digits) ==
    /\ IsFin(m)
    /\ den.v = 0 => m = Fin(0)
    /\ den.v # 0 => IsRounded(m, num, den, digits)

RowMetricsOK(op, r) ==
    CASE op = "transform_campaigns" ->
            /\ MetricOK(r.ctr, r.clicks, r.impressions, CtrDigits)
            /\ MetricOK(r.roi, FSub(r.revenue, r.spend), r.spend, RatioDigits)
      [] op = "transform_targets" ->
            MetricOK(r.target_roi, r.target_revenue, r.target_spend, RatioDigits)
      [] op = "transform_customers" ->
            MetricOK(r.avg_order_value, r.total_spent, r.total_orders, RatioDigits)

\* C1 (as claimed): after a transform has succeeded, every record's derived
\* metric is a finite number, exactly 0 when its denominator is 0 (whatever
\* the numerator) and the rounded quotient otherwise.
C1_MetricsZeroOnZeroDenominator ==
    (ret.op \in TransformOps /\ ~ret.raised) =>
        \A i \in 1..NRows(Transformed) : RowMetricsOK(ret.op, Transformed.rows[i])

\* C6 (as claimed): after a transform call, whether it succeeded or raised,
\* the record set passed in has the columns and values it had before the call.
C6_TransformLeavesInputUntouched ==
    ret.op \in TransformOps => Transformed = hist.before

DerivedCols == {"ctr", "roi", "target_roi", "avg_order_value"}

\* C10: when a transform is applied to an extracted record set and then again
\* to its result, the second application leaves every derived column with the
\* values the first gave it and adds no column.
C10_TransformIdempotent ==
    (ret.op \in TransformOps /\ hist.applied = 2 /\ ~ret.raised) =>
        /\ Transformed.cols = hist.first.cols
        /\ NRows(Transformed) = NRows(hist.first)
        /\ \A i \in 1..NRows(Transformed) :
             \A c \in DerivedCols \cap Transformed.cols :
                Transformed.rows[i][c] = hist.first.rows[i][c]

\* C10's case: a second application has succeeded on a record set holding a
\* non-zero finite metric, an infinite one and a zero-filled one.
C10_Witness ==
    /\ ret.op = "transform_campaigns" /\ hist.applied = 2 /\ ~ret.raised
    /\ NRows(campaigns_data) = 2
    /\ campaigns_data.rows[1].ctr = Fin(3333)
    /\ campaigns_data.rows[1].roi = PosInf
    /\ campaigns_data.rows[2].roi = Fin(0) /\ campaigns_data.rows[2].spend = Num(0)

---------------------------------------------------------------------------
(* SpecQ: the dashboard queries over the campaign fact table as two loads  *)
(* of generated campaigns leave it                                         *)

\* n campaigns of tenant t as the generator writes them: the dates are not in
\* order and, past MaxDates campaigns, repeat.  b numbers the batch.
BatchRows(t, n, b) ==
    [i \in 1..n |->
        LET d == MaxDates - ((i - 1) % MaxDates)
        IN  CampaignRow(t, d, 10 + d, d % 4, b + (d % 3), b + 1 + (d % 2), 3 * b + d)]

BatchSizes == 0..(MaxDates + 2)

SetupSchema == Created(NoStore, 3)

InitQ ==
    /\ pc = "ready"
    /\ conn = "open"
    /\ clock = 1
    /\ \E t1 \in Tenants, t2 \in Tenants, n1 \in BatchSizes, n2 \in BatchSizes :
          LET f1 == transform_campaigns(Frame(CampaignCols, BatchRows(t1, n1, 1), None)).df
              f2 == transform_campaigns(Frame(CampaignCols, BatchRows(t2, n2, 2), None)).df
              s1 == load_to_database(f1, "fact_campaigns", "open", SetupSchema,
                                     NoRows, NoIds, 1, FALSE)
              s2 == load_to_database(f2, "fact_campaigns", "open", s1.schema,
                                     s1.tables, s1.autoinc, 1, FALSE)
          IN  /\ schema = s2.schema /\ tables = s2.tables /\ autoinc = s2.autoinc
    /\ campaigns_data = NoFrame /\ targets_data = NoFrame /\ customers_data = NoFrame
    /\ files = NoFiles
    /\ ret = NoRet
    /\ hist = [failed |-> FALSE, loads |-> NoIds]

AnyQueryType == QueryTypes \cup {"nonexistent_report"}

\* execute_dashboard_query(q) is called on the loaded store
RunDashboardQuery ==
    /\ pc = "ready"
    /\ \E q \in AnyQueryType :
          LET r == execute_dashboard_query(q, conn, schema, tables)
          IN  ret' = [op |-> "execute_dashboard_query", query_type |-> q,
                      raised |-> r.raised, value |-> r.value]
    /\ pc' = "answered"
    /\ UNCHANGED <<conn, store, clock, frames, files, hist>>

NextQ == RunDashboardQuery

SpecQ == InitQ /\ [][NextQ]_vars

---------------------------------------------------------------------------
(* Claims about the dashboard queries *)

FactRows == tables["fact_campaigns"]

Answered(q) ==
    /\ ret.op = "execute_dashboard_query" /\ ret.query_type = q /\ ~ret.raised

RECURSIVE Total(_, _, _)
\* The sum of column c over the rows of the table numbered in I
Total(rows, c, I) ==
    IF I = {} THEN 0
    ELSE LET i == CHOOSE x \in I : TRUE
         IN  rows[i][c].v + Total(rows, c, I \ {i})

DailyGroups == {<<FactRows[i].tenant_id, FactRows[i].date>> : i \in 1..Len(FactRows)}
DailyMembers(t, d) ==
    {i \in 1..Len(FactRows) : FactRows[i].tenant_id = t /\ FactRows[i].date = d}

Before(t1, d1, t2, d2) == t1 < t2 \/ (t1 = t2 /\ d1 < d2)

\* C8: daily_performance returns at most 50 rows, one per (tenant_id, date)
\* group of the fact table, in ascending (tenant_id, date) order; they are the
\* first min(50, number of groups) groups of that order, each with the sums
\* of conversions, revenue and spend over the group's rows.
C8_DailyPerformance ==
    Answered("daily_performance") =>
        LET res == ret.value
        IN  /\ Len(res) <= Limit
            /\ Len(res) = Min(Limit, Cardinality(DailyGroups))
            /\ \A j \in 1..Len(res) :
                  /\ <<res[j].tenant_id, res[j].date>> \in DailyGroups
                  /\ j > 1 => Before(res[j-1].tenant_id, res[j-1].date,
                                     res[j].tenant_id, res[j].date)
                  /\ \A g \in DailyGroups :
                        Before(g[1], g[2], res[j].tenant_id, res[j].date) =>
                            \E h \in 1..(j - 1) :
                                g = <<res[h].tenant_id, res[h].date>>
                  /\ LET I == DailyMembers(res[j].tenant_id, res[j].date)
                     IN  /\ res[j].daily_conversions = Fin(Total(FactRows, "conversions", I))
                         /\ res[j].daily_revenue = Fin(Total(FactRows, "revenue", I))
                         /\ res[j].daily_spend = Fin(Total(FactRows, "spend", I))

\* C8's case: the table holds more than 50 groups, out of date order, and a
\* group of several rows is among the 50 returned.
C8_Witness ==
    /\ Answered("daily_performance")
    /\ Cardinality(DailyGroups) > Limit
    /\ Len(ret.value) = Limit
    /\ FactRows[1].date > FactRows[2].date
    /\ \E j \in 1..Len(ret.value) :
          Cardinality(DailyMembers(ret.value[j].tenant_id, ret.value[j].date)) > 1

TenantsPresent == {FactRows[i].tenant_id : i \in 1..Len(FactRows)}
TenantMembers(t) == {i \in 1..Len(FactRows) : FactRows[i].tenant_id = t}

\* C9: campaign_summary returns one row per tenant_id present in the fact
\* table, in ascending tenant_id order; total_campaigns is the number of the
\* tenant's rows and each total the sum of the field over that tenant's rows
\* only, every duplicate row counted.
C9_CampaignSummary ==
    Answered("campaign_summary") =>
        LET res == ret.value
        IN  /\ Len(res) = Cardinality(TenantsPresent)
            /\ \A j \in 1..Len(res) :
                  /\ res[j].tenant_id \in TenantsPresent
                  /\ j > 1 => res[j-1].tenant_id < res[j].tenant_id
                  /\ LET I == TenantMembers(res[j].tenant_id)
                     IN  /\ res[j].total_campaigns = Cardinality(I)
                         /\ res[j].total_impressions = Fin(Total(FactRows, "impressions", I))
                         /\ res[j].total_clicks = Fin(Total(FactRows, "clicks", I))
                         /\ res[j].total_conversions = Fin(Total(FactRows, "conversions", I))
                         /\ res[j].total_spend = Fin(Total(FactRows, "spend", I))
                         /\ res[j].total_revenue = Fin(Total(FactRows, "revenue", I))

\* C9's case: two tenants' rows are in the table, the larger tenant_id loaded
\* first, and a tenant has several rows of the same date.
C9_Witness ==
    /\ Answered("campaign_summary")
    /\ Len(ret.value) = 2
    /\ FactRows[1].tenant_id > FactRows[Len(FactRows)].tenant_id
    /\ \E i \in 1..Len(FactRows), j \in 1..Len(FactRows) :
          /\ i # j
          /\ FactRows[i].tenant_id = FactRows[j].tenant_id
          /\ FactRows[i].date = FactRows[j].date

---------------------------------------------------------------------------
(* SpecAPI: a client constructs pipelines on one store file and calls the  *)
(* ETLPipeline methods in any order                                        *)

\* The sources' rows: campaigns and customers of the tenants in turn
SourceCsv(n) ==
    [i \in 1..n |-> CampaignRow(((i - 1) % NumTenants) + 1, i, 10 * i, i, i, 4, 4 + i)]
SourceXlsx(n) == [i \in 1..n |-> TargetRow(((i - 1) % NumTenants) + 1, 5 * i, 2)]
SourceApi(n) == [i \in 1..n |-> CustomerRow(((i - 1) % NumTenants) + 1, 10 * i, i)]

\* extract_csv_data, extract_excel_data, extract_api_data: the source's rows
\* as a DataFrame of the source's columns
extract_csv_data(f) == Frame(CampaignCols, f.csv, None)
extract_excel_data(f) == Frame(TargetCols, f.xlsx, None)
extract_api_data(f) == Frame(CustomerCols, f.api, None)

\* The record set main() loads into table t
FrameFor(t) ==
    CASE t = "fact_campaigns" -> campaigns_data
      [] t = "dim_sales_targets" -> targets_data
      [] t = "dim_customers" -> customers_data

InitAPI ==
    /\ pc = "client"
    /\ conn = "none"
    /\ schema = NoStore /\ tables = NoRows /\ autoinc = NoIds /\ clock = 0
    /\ campaigns_data = NoFrame /\ targets_data = NoFrame /\ customers_data = NoFrame
    /\ \E n \in 0..MaxRows :
          files = [csv |-> SourceCsv(n), xlsx |-> SourceXlsx(n), api |-> SourceApi(n)]
    /\ ret = NoRet
    /\ hist = [failed |-> FALSE, loads |-> NoIds]

\* etl = ETLPipeline(): a new connection to the store, then setup_database
Construct ==
    /\ pc = "client" /\ clock < MaxRuns
    /\ LET r == setup_database(schema, "none", 3)
       IN  /\ conn' = r.conn
           /\ schema' = r.schema
           /\ ret' = [op |-> "setup_database", raised |-> r.raised]
    /\ clock' = clock + 1
    /\ hist' = [hist EXCEPT !.failed = FALSE]
    /\ UNCHANGED <<pc, tables, autoinc, frames, files>>

\* The three extracts and the three transforms (main, lines 358-365)
ExtractTransform ==
    /\ pc = "client" /\ conn # "none"
    /\ campaigns_data' = transform_campaigns(extract_csv_data(files)).df
    /\ targets_data' = transform_targets(extract_excel_data(files)).df
    /\ customers_data' = transform_customers(extract_api_data(files)).df
    /\ ret' = [op |-> "transform", raised |-> FALSE]
    /\ UNCHANGED <<pc, conn, store, clock, files, hist>>

\* etl.load_to_database(frame, t), the frame being the record set of table t
Load ==
    /\ pc = "client" /\ conn # "none"
    /\ \E t \in TableNames :
          /\ FrameFor(t) # NoFrame /\ hist.loads[t] < MaxLoads
          /\ LET r == load_to_database(FrameFor(t), t, conn, schema, tables, autoinc,
                                       clock, FALSE)
             IN  /\ schema' = r.schema /\ tables' = r.tables /\ autoinc' = r.autoinc
                 /\ ret' = [op |-> "load_to_database", table |-> t,
                            raised |-> r.raised, open |-> conn = "open"]
          /\ hist' = [hist EXCEPT !.loads[t] = @ + 1]
    /\ UNCHANGED <<pc, conn, clock, frames, files>>

\* etl.execute_dashboard_query(q)
ExecuteDashboardQuery ==
    /\ pc = "client" /\ conn # "none"
    /\ \E q \in AnyQueryType :
          LET r == execute_dashboard_query(q, conn, schema, tables)
          IN  /\ ret' = [op |-> "execute_dashboard_query", query_type |-> q,
                         raised |-> r.raised, value |-> r.value]
              /\ hist' = [hist EXCEPT !.failed = @ \/ (q \notin QueryTypes)]
    /\ UNCHANGED <<pc, conn, store, clock, frames, files>>

\* etl.close_connection()
CloseConnection ==
    /\ pc = "client" /\ conn # "none"
    /\ conn' = close_connection(conn)
    /\ ret' = [op |-> "close_connection", raised |-> FALSE]
    /\ UNCHANGED <<pc, store, clock, frames, files, hist>>

NextAPI ==
    \/ Construct
    \/ ExtractTransform
    \/ Load
    \/ ExecuteDashboardQuery
    \/ CloseConnection

SpecAPI == InitAPI /\ [][NextAPI]_vars

---------------------------------------------------------------------------
(* Spec: main(), run up to MaxRuns times against the same store file       *)

\* What the generator writes and the mock API returns: a campaign, a target
\* and a customer per tenant, the random values (v) within the generator's
\* ranges, so every denominator is positive.
generate_marketing_campaigns(v) ==
    [i \in 1..NumTenants |-> CampaignRow(i, v, 10 + v, v, v, 2, 2 + v)]
generate_sales_targets(v) == [i \in 1..NumTenants |-> TargetRow(i, 5 + v, 2)]
mock_customers(v) == [i \in 1..NumTenants |-> CustomerRow(i, 10 * v, v)]

Randoms == 1..2

\* A store file left by a pipeline whose tables to_sql created itself, from
\* the transformed record sets' columns
FrameCols(t) ==
    CASE t = "fact_campaigns" ->
            transform_campaigns(Frame(CampaignCols, <<>>, None)).df.cols
      [] t = "dim_sales_targets" ->
            transform_targets(Frame(TargetCols, <<>>, None)).df.cols
      [] t = "dim_customers" ->
            transform_customers(Frame(CustomerCols, <<>>, None)).df.cols
FrameStore == [t \in TableNames |-> FrameCols(t)]

\* The store file main() finds: none yet, or one that exists already
Init ==
    /\ pc = "start"
    /\ conn = "none"
    /\ schema \in {NoStore, FrameStore}
    /\ tables = NoRows /\ autoinc = NoIds /\ clock = 0
    /\ campaigns_data = NoFrame /\ targets_data = NoFrame /\ customers_data = NoFrame
    /\ files = NoFiles
    /\ ret = NoRet
    /\ hist = [fault |-> FALSE, stages |-> <<>>]

\* The statement at `at` is done: control moves on, or the exception goes to
\* main's handler, which logs it and raises it again.
Goto(at, op, raised, next, fault) ==
    /\ pc = at
    /\ pc' = IF raised THEN "failed" ELSE next
    /\ ret' = [op |-> op, raised |-> raised]
    /\ hist' = [hist EXCEPT !.fault = @ \/ fault,
                            !.stages = IF raised THEN @ ELSE Append(@, op)]

SetupFaults == {"none", "connect", "create"}

\* generator = DataGenerator(); etl = ETLPipeline()
MainConstruct ==
    /\ \E f \in SetupFaults, done \in 0..2 :
          /\ f # "create" => done = 0
          /\ LET r == setup_database(schema, f, done)
             IN  /\ conn' = r.conn
                 /\ schema' = r.schema
                 /\ Goto("start", "setup_database", r.raised, "generate", f # "none")
    /\ clock' = clock + 1
    /\ UNCHANGED <<tables, autoinc, frames, files>>

\* generator.generate_marketing_campaigns(); generator.generate_sales_targets()
MainGenerate ==
    /\ \E v \in Randoms, w \in Randoms :
          files' = [files EXCEPT !.csv = generate_marketing_campaigns(v),
                                 !.xlsx = generate_sales_targets(w)]
    /\ Goto("generate", "generate", FALSE, "extract_csv", FALSE)
    /\ UNCHANGED <<conn, store, clock, frames>>

\* campaigns_data = etl.extract_csv_data(CSV_FILE)
MainExtractCsv ==
    /\ \E unreadable \in BOOLEAN :
          /\ campaigns_data' = IF unreadable THEN campaigns_data
                               ELSE extract_csv_data(files)
          /\ Goto("extract_csv", "extract_csv_data", unreadable, "extract_excel",
                  unreadable)
    /\ UNCHANGED <<conn, store, clock, targets_data, customers_data, files>>

\* targets_data = etl.extract_excel_data(EXCEL_FILE)
MainExtractExcel ==
    /\ \E unreadable \in BOOLEAN :
          /\ targets_data' = IF unreadable THEN targets_data
                             ELSE extract_excel_data(files)
          /\ Goto("extract_excel", "extract_excel_data", unreadable, "extract_api",
                  unreadable)
    /\ UNCHANGED <<conn, store, clock, campaigns_data, customers_data, files>>

\* customers_data = etl.extract_api_data("customers"): mock records, and the
\* same mock records from the fallback, so it never raises
MainExtractApi ==
    /\ \E v \in Randoms :
          /\ files' = [files EXCEPT !.api = mock_customers(v)]
          /\ customers_data' = extract_api_data(files')
    /\ Goto("extract_api", "extract_api_data", FALSE, "transform_campaigns", FALSE)
    /\ UNCHANGED <<conn, store, clock, campaigns_data, targets_data>>

\* campaigns_transformed = etl.transform_campaigns(campaigns_data)
MainTransformCampaigns ==
    /\ LET r == transform_campaigns(campaigns_data)
       IN  /\ campaigns_data' = r.df
           /\ Goto("transform_campaigns", "transform_campaigns", r.raised,
                   "transform_targets", FALSE)
    /\ UNCHANGED <<conn, store, clock, targets_data, customers_data, files>>

\* targets_transformed = etl.transform_targets(targets_data)
MainTransformTargets ==
    /\ LET r == transform_targets(targets_data)
       IN  /\ targets_data' = r.df
           /\ Goto("transform_targets", "transform_targets", r.raised,
                   "transform_customers", FALSE)
    /\ UNCHANGED <<conn, store, clock, campaigns_data, customers_data, files>>

\* customers_transformed = etl.transform_customers(customers_data)
MainTransformCustomers ==
    /\ LET r == transform_customers(customers_data)
       IN  /\ customers_data' = r.df
           /\ Goto("transform_customers", "transform_customers", r.raised,
                   "load_campaigns", FALSE)
    /\ UNCHANGED <<conn, store, clock, campaigns_data, targets_data, files>>

\* etl.load_to_database(<the transformed record set of t>, t)
MainLoad(at, t, next) ==
    /\ \E ioerr \in BOOLEAN :
          LET r == load_to_database(FrameFor(t), t, conn, schema, tables, autoinc,
                                    clock, ioerr)
          IN  /\ schema' = r.schema /\ tables' = r.tables /\ autoinc' = r.autoinc
              /\ Goto(at, "load_to_database", r.raised, next, ioerr)
    /\ UNCHANGED <<conn, clock, frames, files>>

MainLoadCampaigns == MainLoad("load_campaigns", "fact_campaigns", "load_targets")
MainLoadTargets == MainLoad("load_targets", "dim_sales_targets", "load_customers")
MainLoadCustomers == MainLoad("load_customers", "dim_customers", "campaign_summary")

\* summary_df = etl.execute_dashboard_query(q), printed
MainQuery(at, q, next) ==
    /\ Goto(at, "execute_dashboard_query",
            execute_dashboard_query(q, conn, schema, tables).raised, next, FALSE)
    /\ UNCHANGED <<conn, store, clock, frames, files>>

MainCampaignSummary == MainQuery("campaign_summary", "campaign_summary", "daily_performance")
MainDailyPerformance == MainQuery("daily_performance", "daily_performance", "close")

\* etl.close_connection(), the last statement of the try block
MainClose ==
    /\ conn' = close_connection(conn)
    /\ Goto("close", "close_connection", FALSE, "done", FALSE)
    /\ UNCHANGED <<store, clock, frames, files>>

\* main() is started again, in a new process, on the store the last run left
Rerun ==
    /\ pc \in {"done", "failed"} /\ clock < MaxRuns
    /\ pc' = "start"
    /\ conn' = "none"
    /\ campaigns_data' = NoFrame /\ targets_data' = NoFrame /\ customers_data' = NoFrame
    /\ ret' = NoRet
    /\ hist' = [fault |-> FALSE, stages |-> <<>>]
    /\ UNCHANGED <<store, clock, files>>

Next ==
    \/ MainConstruct
    \/ MainGenerate
    \/ MainExtractCsv
    \/ MainExtractExcel
    \/ MainExtractApi
    \/ MainTransformCampaigns
    \/ MainTransformTargets
    \/ MainTransformCustomers
    \/ MainLoadCampaigns
    \/ MainLoadTargets
    \/ MainLoadCustomers
    \/ MainCampaignSummary
    \/ MainDailyPerformance
    \/ MainClose
    \/ Rerun

Spec == Init /\ [][Next]_vars

RunEnded == pc \in {"done", "failed"}

\* C4 (as claimed): when a run of main() that acquired the connection and set
\* up the schema ends, by completing or by a failure of an extract, transform,
\* load or report stage, the connection is closed.
C4_ConnectionClosedAtRunEnd ==
    (RunEnded /\ conn # "none" /\ ret.op # "setup_database") => conn = "closed"

\* The calls of a run of main() in the order of its statements
StageOrder ==
    <<"setup_database", "generate",
      "extract_csv_data", "extract_excel_data", "extract_api_data",
      "transform_campaigns", "transform_targets", "transform_customers",
      "load_to_database", "load_to_database", "load_to_database",
      "execute_dashboard_query", "execute_dashboard_query", "close_connection">>

\* C11 (as claimed): in a run in which the store and the sources are readable
\* (no fault is injected; the generated sources are well-formed), the stages
\* complete in main()'s order, the two queries after the three loads, and no
\* stage fails, so the run does not end in main()'s exception handler.
C11_FaultFreeRunCompletes ==
    ~hist.fault =>
        /\ pc # "failed"
        /\ Len(hist.stages) <= Len(StageOrder)
        /\ hist.stages = SubSeq(StageOrder, 1, Len(hist.stages))

---------------------------------------------------------------------------
(* Claims about the store *)

\* The columns the data model lists for each table
DataModelCols(t) ==
    CASE t = "fact_campaigns" -> CampaignCols \cup {"ctr", "roi"}
      [] t = "dim_sales_targets" -> TargetCols \cup {"target_roi"}
      [] t = "dim_customers" -> CustomerCols \cup {"avg_order_value"}

\* C2 (as claimed): with the connection open, the first load of a table's
\* transformed record set of N records into the empty table succeeds and
\* leaves N rows in it, and a second load of the same record set leaves 2N.
C2_LoadAppendsAllRecords ==
    (ret.op = "load_to_database" /\ ret.open) =>
        LET t == ret.table
            N == NRows(FrameFor(t))
        IN  /\ hist.loads[t] = 1 => (~ret.raised /\ Len(tables[t]) = N)
            /\ hist.loads[t] = 2 => Len(tables[t]) = 2 * N

\* C3 (as claimed): once setup_database has run on a store without tables,
\* every table has the data model's columns, the derived ones included, an id
\* and a created_at, so every transformed record set's columns are columns of
\* its table.
C3_SchemaHasDataModelColumns ==
    (ret.op = "setup_database" /\ ~ret.raised /\ clock = 1) =>
        \A t \in TableNames :
            /\ DataModelCols(t) \cup {"id", "created_at"} \subseteq schema[t]
            /\ FrameFor(t) # NoFrame => FrameFor(t).cols \subseteq schema[t]

IsPrefix(a, b) == Len(a) <= Len(b) /\ SubSeq(b, 1, Len(a)) = a

\* C5: no operation (schema setup on an existing store, load, query, close,
\* a further pipeline on the same store file) drops a table or updates,
\* deletes or truncates a committed row: every table's contents stay a prefix
\* of its later contents.
C5_AppendOnly ==
    [][\A t \in TableNames :
          /\ IsPrefix(tables[t], tables'[t])
          /\ schema[t] # {} => schema'[t] = schema[t]]_vars

\* C5's case: a second pipeline has set up its schema on the store that holds
\* the rows of two earlier loads.
C5_Witness ==
    /\ ret.op = "setup_database" /\ clock = 2
    /\ Len(tables["fact_campaigns"]) >= 2
    /\ hist.loads["fact_campaigns"] = 2

\* C7: a query of a type other than the two enumerated raises and leaves the
\* store as it was; a later query of an enumerated type on the same open
\* connection does not raise.
C7_UnknownQueryRaises ==
    [][ExecuteDashboardQuery =>
          /\ ret'.query_type \notin QueryTypes =>
                /\ ret'.raised
                /\ UNCHANGED <<conn, schema, tables, autoinc>>
          /\ (ret'.query_type \in QueryTypes /\ conn = "open") => ~ret'.raised]_vars

\* C7's case: on a connection on which an unknown query has failed, with rows
\* loaded before the failure, an enumerated query has been answered.
C7_Witness ==
    /\ hist.failed
    /\ ret.op = "execute_dashboard_query" /\ ret.query_type \in QueryTypes
    /\ ~ret.raised /\ Len(ret.value) > 0
    /\ conn = "open"

=============================================================================
